---- MODULE Spec2Model ----
(***************************************************************************)
(* Model of wrapspawner.py: WrapSpawner and ProfilesSpawner.               *)
(*                                                                         *)
(* One supervisor object (a WrapSpawner or a ProfilesSpawner) is alive at  *)
(* a time; NewSupervisor replaces it by a freshly configured one (a hub    *)
(* restart), keeping only the state mapping the orchestrator persisted.    *)
(*                                                                         *)
(* Python dictionaries are functions with a finite domain.  Where the code *)
(* shares one dictionary object between two places (child_config = p[4])   *)
(* the model keeps a reference: child_config_ref = 0 names the spawner's   *)
(* own dictionary (own_config), i > 0 names the dictionary object held by  *)
(* profiles[i].                                                            *)
(*                                                                         *)
(* Specifications: Spec (every operation, children never raise),           *)
(* SpecTraits (trait assignment between construction and release),         *)
(* SpecHub (only the operations the hub calls), SpecFaults (SpecHub with   *)
(* children whose operations may raise) and SpecForm (form handling).      *)
(***************************************************************************)
EXTENDS Integers, Sequences, FiniteSets, TLC

\* ---------------------------------------------------------------- bounds
MaxChildren == 2   \* child instances ever constructed in one behaviour
MaxPid == 1        \* process ids a started child may report

\* ------------------------------------------------------ values and dicts
EmptyDict == [k \in {} |-> 0]

Get(d, k, default) == IF k \in DOMAIN d THEN d[k] ELSE default

\* dict.update(e) as a value
Update(d, e) == [k \in (DOMAIN d) \cup (DOMAIN e) |-> IF k \in DOMAIN e THEN e[k] ELSE d[k]]

\* Python truthiness of a dict
Truthy(d) == DOMAIN d # {}

RNone == [t |-> "None", v |-> 0]
RInt(n) == [t |-> "int", v |-> n]
RChild(id) == [t |-> "child", v |-> id]
RFuture(op, id) == [t |-> op, v |-> id]
RProgress(id) == [t |-> "progress", v |-> id]

\* ------------------------------------------------------- classes, traits
LocalProcessSpawner == "LocalProcessSpawner"
DockerSpawner == "DockerSpawner"

TraitValues == {10, 15}
InitialTraitValue == 10

\* traits that exist on every Spawner, hence on the supervisor and on every child
SpawnerTraits == {"start_timeout", "http_timeout"}

\* self.trait_names() of the supervisor
SelfTraitNames == SpawnerTraits \cup {"child_class", "child_config", "child_state", "child_spawner"}

\* self.child_spawner.trait_names() by child class
ChildTraitNames(c) == IF c = DockerSpawner THEN SpawnerTraits \cup {"image"} ELSE SpawnerTraits

\* ------------------------------------------------------------ catalogs
LocalProfile == [key |-> "local", class |-> LocalProcessSpawner,
                 config |-> [k \in {"start_timeout", "http_timeout"} |->
                               IF k = "start_timeout" THEN 15 ELSE 10]]
DockerProfile == [key |-> "docker", class |-> DockerSpawner,
                  config |-> [k \in {"start_timeout"} |-> 15]]

\* the catalogs a deployment may configure (minlen = 1, keys unique)
Catalogs == { <<LocalProfile>>, <<DockerProfile, LocalProfile>> }

\* a value of WrapSpawner.child_config a deployment may configure instead of {}
ConfiguredChildConfig == [k \in {"http_timeout"} |-> 15]

\* the keys a user may submit; "docker" matches nothing in the catalog <<LocalProfile>>
ProfileKeys == {"local", "docker"}

\* the value lists a submitted form may carry for one field
FormValues == { <<>>, <<"local">>, <<"docker">>, <<"docker", "local">>, <<"local", "docker">> }

\* the form data handed to options_from_form: field name -> list of values
FormData ==
    UNION { [fields -> FormValues] : fields \in SUBSET {"profile", "_xsrf"} }

\* user_options as the orchestrator may record them
UserOptions == { EmptyDict } \cup { [k \in {"profile"} |-> p] : p \in ProfileKeys }

\* ------------------------------------------------------------ the child
\* stage: how far construct_child came with the instance
\* ("constructed", "cleared", "loaded", and "linked" when it ran to its end)
NoChild == [id |-> 0, class |-> "", kwargs |-> EmptyDict, traits |-> EmptyDict,
            links |-> {}, pid |-> 0, stage |-> ""]

\* child_class(user=..., config=..., **child_config): keyword arguments that
\* name a trait of the class set it, the others leave the defaults
NewChild(id, class, kwargs) ==
    [id |-> id, class |-> class, kwargs |-> kwargs,
     traits |-> [t \in ChildTraitNames(class) |->
                   IF t \in DOMAIN kwargs THEN kwargs[t] ELSE InitialTraitValue],
     links |-> {}, pid |-> 0, stage |-> "constructed"]

ChildClearState(c) == [c EXCEPT !.pid = 0]

ChildLoadState(c, st) == IF "pid" \in DOMAIN st THEN [c EXCEPT !.pid = st["pid"]] ELSE c

ChildGetState(c) == IF c.pid # 0 THEN [k \in {"pid"} |-> c.pid] ELSE EmptyDict

\* a link that copies the value once and observes nothing
DirectionalLink_CopyOnly(c, selfTraits, trait) ==
    [c EXCEPT !.traits = IF trait \in DOMAIN selfTraits /\ trait \in DOMAIN @
                         THEN [@ EXCEPT ![trait] = selfTraits[trait]] ELSE @]

\* directional_link((self, trait), (child, trait)): copies the source value
\* into the target at once and observes the source from then on
DirectionalLink(c, selfTraits, trait) ==
    [c EXCEPT !.links = @ \cup {trait},
              !.traits = IF trait \in DOMAIN selfTraits /\ trait \in DOMAIN @
                         THEN [@ EXCEPT ![trait] = selfTraits[trait]] ELSE @]

RECURSIVE LinkAll(_, _, _)
LinkAll(c, selfTraits, ts) ==
    IF ts = {} THEN c
    ELSE LET t == CHOOSE x \in ts : TRUE
         IN LinkAll(DirectionalLink(c, selfTraits, t), selfTraits, ts \ {t})

Call(op, id, arg) == [op |-> op, child |-> id, arg |-> arg]

\* ------------------------------------------------------------ the state
VARIABLES
    conf,             \* configuration: the supervisor's class and configured traits
    user_options,     \* Spawner.user_options
    traits,           \* the supervisor's values of the traits shared with children
    child_class,
    child_config_ref, \* which dictionary object child_config is (0 = own_config)
    own_config,       \* contents of the supervisor's own child_config dictionary
    child_state,
    child_spawner,    \* 0 is None, else the identity of the child instance
    child,            \* the child instance child_spawner refers to
    child_profile,
    profiles,         \* the catalog as this supervisor holds it
    nextId,           \* identity of the next instance constructed
    saved,            \* the state mapping the orchestrator persisted last
    trace,            \* calls made on the child by the last operation
    lastOp            \* the last operation, its arguments and its result

vars == <<conf, user_options, traits, child_class, child_config_ref, own_config,
          child_state, child_spawner, child, child_profile, profiles, nextId,
          saved, trace, lastOp>>

\* the supervisor object as one record, so that methods are operators on it;
\* fault names the operation of the child that raises when this call reaches it
\* ("" when none does), err the error that left the method ("" when it returned)
Self == [cls |-> conf.cls, user_options |-> user_options, traits |-> traits,
         child_class |-> child_class, child_config_ref |-> child_config_ref,
         own_config |-> own_config, child_state |-> child_state,
         child_spawner |-> child_spawner, child |-> child,
         child_profile |-> child_profile, profiles |-> profiles,
         nextId |-> nextId, trace |-> <<>>, ret |-> RNone, fault |-> "", err |-> ""]

\* the dictionary self.child_config currently is
ChildConfig(s) == IF s.child_config_ref = 0 THEN s.own_config
                  ELSE s.profiles[s.child_config_ref].config

\* ------------------------------------------------------------ WrapSpawner
\* construction that links every common trait, the keys of child_config included
BuildChild_LinkOverrides(s) ==
    LET cfg == ChildConfig(s)
        c0 == NewChild(s.nextId, s.child_class, cfg)
        c1 == ChildClearState(c0)
        c2 == IF Truthy(s.child_state) THEN ChildLoadState(c1, s.child_state) ELSE c1
        common_traits == SelfTraitNames \cap ChildTraitNames(s.child_class)
        c3 == [LinkAll(c2, s.traits, common_traits) EXCEPT !.stage = "linked"]
        calls == <<Call("__init__", c0.id, cfg), Call("clear_state", c0.id, EmptyDict)>>
                 \o (IF Truthy(s.child_state)
                     THEN <<Call("load_state", c0.id, s.child_state)>> ELSE <<>>)
                 \o <<Call("directional_link", c0.id, [t \in common_traits |-> 0])>>
    IN [s EXCEPT !.child_spawner = c3.id, !.child = c3, !.nextId = @ + 1,
                 !.trace = @ \o calls]

\* the body of construct_child under "if self.child_spawner is None": the new
\* instance is assigned to child_spawner before it is cleared, loaded and linked
BuildChild(s) ==
    LET cfg == ChildConfig(s)
        c0 == NewChild(s.nextId, s.child_class, cfg)
        c1 == [ChildClearState(c0) EXCEPT !.stage = "cleared"]
        c2 == IF Truthy(s.child_state)
              THEN [ChildLoadState(c1, s.child_state) EXCEPT !.stage = "loaded"] ELSE c1
        common_traits == SelfTraitNames \cap (ChildTraitNames(s.child_class) \ DOMAIN cfg)
        c3 == [LinkAll(c2, s.traits, common_traits) EXCEPT !.stage = "linked"]
        init == <<Call("__init__", c0.id, cfg)>>
        clear == <<Call("clear_state", c0.id, EmptyDict)>>
        load == IF Truthy(s.child_state)
                THEN <<Call("load_state", c0.id, s.child_state)>> ELSE <<>>
        link == <<Call("directional_link", c0.id, [t \in common_traits |-> 0])>>
        Keep(c, calls, e) ==
            [s EXCEPT !.child_spawner = c.id, !.child = c, !.nextId = @ + 1,
                      !.trace = @ \o calls, !.err = e]
    IN CASE s.fault = "__init__" -> [s EXCEPT !.trace = @ \o init, !.err = "__init__"]
         [] s.fault = "clear_state" -> Keep(c0, init \o clear, "clear_state")
         [] s.fault = "load_state" /\ Truthy(s.child_state)
              -> Keep(c1, init \o clear \o load, "load_state")
         [] OTHER -> Keep(c3, init \o clear \o load \o link, "")

\* construct_child that builds a child on every call
WrapSpawner_construct_child_Rebuild(s) ==
    LET s1 == BuildChild(s)
    IN IF s1.err # "" THEN s1 ELSE [s1 EXCEPT !.ret = RChild(s1.child_spawner)]

WrapSpawner_construct_child(s) ==
    LET s1 == IF s.child_spawner = 0 THEN BuildChild(s) ELSE s
    IN IF s1.err # "" THEN s1 ELSE [s1 EXCEPT !.ret = RChild(s1.child_spawner)]

WrapSpawner_load_child_class(s, state) == s

\* get_state that returns the child's state without caching it
WrapSpawner_get_state_NoCache(s) ==
    LET state0 == [k \in {"child_conf"} |-> ChildConfig(s)]
    IN IF s.child_spawner # 0
       THEN [s EXCEPT !.trace = @ \o <<Call("get_state", s.child.id, EmptyDict)>>,
                      !.ret = Update(state0, [k \in {"child_state"} |-> ChildGetState(s.child)])]
       ELSE [s EXCEPT !.ret = state0]

WrapSpawner_get_state(s) ==
    LET state0 == [k \in {"child_conf"} |-> ChildConfig(s)]
    IN IF s.child_spawner # 0 /\ s.fault = "get_state"
       THEN [s EXCEPT !.trace = @ \o <<Call("get_state", s.child.id, EmptyDict)>>,
                      !.err = "get_state"]
       ELSE IF s.child_spawner # 0
       THEN LET cs == ChildGetState(s.child)
            IN [s EXCEPT !.child_state = cs,
                         !.trace = @ \o <<Call("get_state", s.child.id, EmptyDict)>>,
                         !.ret = Update(state0, [k \in {"child_state"} |-> cs])]
       ELSE [s EXCEPT !.ret = state0]

\* clear_state that releases the child without clearing it
WrapSpawner_clear_state_NoPropagate(s) ==
    [s EXCEPT !.child_state = EmptyDict,
              !.child_config_ref = 0, !.own_config = EmptyDict,
              !.child_spawner = 0, !.child = NoChild, !.ret = RNone]

WrapSpawner_clear_state(s) ==
    LET s1 == IF s.child_spawner # 0
              THEN [s EXCEPT !.child = ChildClearState(@),
                             !.trace = @ \o <<Call("clear_state", s.child.id, EmptyDict)>>]
              ELSE s
    IN IF s.child_spawner # 0 /\ s.fault = "clear_state"
       THEN [s EXCEPT !.trace = @ \o <<Call("clear_state", s.child.id, EmptyDict)>>,
                      !.err = "clear_state"]
       ELSE [s1 EXCEPT !.child_state = EmptyDict,
                       !.child_config_ref = 0, !.own_config = EmptyDict,
                       !.child_spawner = 0, !.child = NoChild, !.ret = RNone]

\* ------------------------------------------------------------ ProfilesSpawner
\* the positions of the catalog entries whose key is profile
Matches(s, profile) == {i \in 1..Len(s.profiles) : s.profiles[i].key = profile}

MinOf(S) == CHOOSE i \in S : \A j \in S : i <= j

\* select_profile that falls back to the first entry when nothing matches
select_profile_FirstOnMiss(s, profile) ==
    LET i == IF Matches(s, profile) = {} THEN 1 ELSE MinOf(Matches(s, profile))
    IN [s EXCEPT !.child_class = s.profiles[i].class, !.child_config_ref = i]

\* select_profile that forgets the assignment of child_config
select_profile_ClassOnly(s, profile) ==
    IF Matches(s, profile) = {} THEN s
    ELSE LET i == MinOf(Matches(s, profile))
         IN [s EXCEPT !.child_class = s.profiles[i].class]

\* select_profile that empties child_config when nothing matches
select_profile_ResetOnMiss(s, profile) ==
    IF Matches(s, profile) = {}
    THEN [s EXCEPT !.child_config_ref = 0, !.own_config = EmptyDict]
    ELSE LET i == MinOf(Matches(s, profile))
         IN [s EXCEPT !.child_class = s.profiles[i].class, !.child_config_ref = i]

select_profile(s, profile) ==
    IF Matches(s, profile) = {} THEN s
    ELSE LET i == MinOf(Matches(s, profile))
         IN [s EXCEPT !.child_class = s.profiles[i].class, !.child_config_ref = i]

ProfilesSpawner_construct_child(s) ==
    LET s1 == [s EXCEPT !.child_profile = Get(s.user_options, "profile", "")]
        s2 == select_profile(s1, s1.child_profile)
        s3 == WrapSpawner_construct_child(s2)
    IN [s3 EXCEPT !.ret = RNone]

ProfilesSpawner_load_child_class(s, state) ==
    LET s1 == [s EXCEPT !.child_profile = IF "profile" \in DOMAIN state
                                          THEN state["profile"] ELSE ""]
    IN select_profile(s1, s1.child_profile)

ProfilesSpawner_get_state(s) ==
    LET s1 == WrapSpawner_get_state(s)
    IN IF s1.err # "" THEN s1
       ELSE [s1 EXCEPT !.ret = Update(@, [k \in {"profile"} |-> s.child_profile])]

ProfilesSpawner_clear_state(s) ==
    LET s1 == WrapSpawner_clear_state(s)
    IN IF s1.err # "" THEN s1 ELSE [s1 EXCEPT !.child_profile = ""]

\* ------------------------------------------------------------ dispatch
IsProfiles(s) == s.cls = "ProfilesSpawner"

construct_child(s) ==
    IF IsProfiles(s) THEN ProfilesSpawner_construct_child(s) ELSE WrapSpawner_construct_child(s)

load_child_class(s, state) ==
    IF IsProfiles(s) THEN ProfilesSpawner_load_child_class(s, state)
    ELSE WrapSpawner_load_child_class(s, state)

get_state(s) ==
    IF IsProfiles(s) THEN ProfilesSpawner_get_state(s) ELSE WrapSpawner_get_state(s)

clear_state(s) ==
    IF IsProfiles(s) THEN ProfilesSpawner_clear_state(s) ELSE WrapSpawner_clear_state(s)

\* self.child_config.update(d): changes the dictionary object in place
ChildConfigUpdate(s, d) ==
    IF s.child_config_ref = 0
    THEN [s EXCEPT !.own_config = Update(@, d)]
    ELSE [s EXCEPT !.profiles[s.child_config_ref].config = Update(@, d)]

load_state(s, state) ==
    LET s1 == load_child_class(s, state)
        s2 == ChildConfigUpdate(s1, Get(state, "child_conf", EmptyDict))
        s3 == [s2 EXCEPT !.child_state = Get(state, "child_state", EmptyDict)]
        s4 == construct_child(s3)
    IN [s4 EXCEPT !.ret = RNone]

\* start that runs the pre-spawn hook after the child's start
start_HookAfterStart(s, pid) ==
    LET s1 == IF s.child_spawner = 0 THEN construct_child(s) ELSE s
        hook == <<Call("run_pre_spawn_hook", s1.child.id, EmptyDict)>>
        go == <<Call("start", s1.child.id, EmptyDict)>>
    IN IF s1.err # "" THEN s1
       ELSE [s1 EXCEPT !.child.pid = pid, !.trace = @ \o go \o hook,
                       !.ret = RFuture("start", s1.child.id)]

start(s, pid) ==
    LET s1 == IF s.child_spawner = 0 THEN construct_child(s) ELSE s
        hook == <<Call("run_pre_spawn_hook", s1.child.id, EmptyDict)>>
        go == <<Call("start", s1.child.id, EmptyDict)>>
    IN CASE s1.err # "" -> s1
         [] s.fault = "run_pre_spawn_hook"
              -> [s1 EXCEPT !.trace = @ \o hook, !.err = "run_pre_spawn_hook"]
         [] s.fault = "start"
              -> [s1 EXCEPT !.trace = @ \o hook \o go, !.err = "start"]
         [] OTHER
              -> [s1 EXCEPT !.child.pid = pid, !.trace = @ \o hook \o go,
                            !.ret = RFuture("start", s1.child.id)]

\* stop that swallows the child's error and reports completion
stop_Swallow(s, now) ==
    IF s.child_spawner # 0
    THEN [s EXCEPT !.child.pid = IF s.fault = "stop" THEN @ ELSE 0,
                   !.trace = @ \o <<Call("stop", s.child.id,
                                         [k \in {"now"} |-> IF now THEN 1 ELSE 0])>>,
                   !.ret = IF s.fault = "stop" THEN RNone ELSE RFuture("stop", s.child.id)]
    ELSE [s EXCEPT !.ret = RNone]

stop(s, now) ==
    IF s.child_spawner # 0 /\ s.fault = "stop"
    THEN [s EXCEPT !.trace = @ \o <<Call("stop", s.child.id,
                                         [k \in {"now"} |-> IF now THEN 1 ELSE 0])>>,
                   !.err = "stop"]
    ELSE IF s.child_spawner # 0
    THEN [s EXCEPT !.child.pid = 0,
                   !.trace = @ \o <<Call("stop", s.child.id,
                                         [k \in {"now"} |-> IF now THEN 1 ELSE 0])>>,
                   !.ret = RFuture("stop", s.child.id)]
    ELSE [s EXCEPT !.ret = RNone]

\* poll that answers None without a child, as stop does
poll_None(s) ==
    IF s.child_spawner # 0
    THEN [s EXCEPT !.trace = @ \o <<Call("poll", s.child.id, EmptyDict)>>,
                   !.ret = RFuture("poll", s.child.id)]
    ELSE [s EXCEPT !.ret = RNone]

poll(s) ==
    IF s.child_spawner # 0 /\ s.fault = "poll"
    THEN [s EXCEPT !.trace = @ \o <<Call("poll", s.child.id, EmptyDict)>>, !.err = "poll"]
    ELSE IF s.child_spawner # 0
    THEN [s EXCEPT !.trace = @ \o <<Call("poll", s.child.id, EmptyDict)>>,
                   !.ret = RFuture("poll", s.child.id)]
    ELSE [s EXCEPT !.ret = RInt(1)]

\* a progress that yields nothing when there is no child
progress_None(s) ==
    IF s.child_spawner = 0
    THEN [s EXCEPT !.ret = RNone]
    ELSE [s EXCEPT !.trace = @ \o <<Call("progress", s.child.id, EmptyDict)>>,
                   !.ret = RProgress(s.child.id)]

\* the progress property: reading it with no child raises RuntimeError
progress(s) ==
    IF s.child_spawner = 0
    THEN [s EXCEPT !.err = "RuntimeError"]
    ELSE [s EXCEPT !.trace = @ \o <<Call("progress", s.child.id, EmptyDict)>>,
                   !.ret = RProgress(s.child.id)]

\* dict(profile=formdata.get('profile', [self.profiles[0][1]])[0]):
\* [0] of an empty list raises IndexError
options_from_form(s, formdata) ==
    LET values == Get(formdata, "profile", <<s.profiles[1].key>>)
    IN IF Len(values) = 0
       THEN [s EXCEPT !.err = "IndexError"]
       ELSE [s EXCEPT !.ret = [k \in {"profile"} |-> values[1]]]

\* ------------------------------------------------------------ behaviour
\* what a deployment can configure: the supervisor class, child_class,
\* child_config and (ProfilesSpawner) profiles
Configurations ==
    { [cls |-> "WrapSpawner", child_class |-> LocalProcessSpawner,
       child_config |-> EmptyDict, profiles |-> <<LocalProfile>>],
      [cls |-> "WrapSpawner", child_class |-> DockerSpawner,
       child_config |-> ConfiguredChildConfig, profiles |-> <<LocalProfile>>] }
    \cup
    [cls : {"ProfilesSpawner"}, child_class : {LocalProcessSpawner},
     child_config : {EmptyDict}, profiles : Catalogs]

\* saved.class is the class of the child that existed when the mapping was taken,
\* saved.chosen says that this child was built from the catalog entry child_profile names
NoSaved == [has |-> FALSE, state |-> EmptyDict, class |-> "", chosen |-> FALSE]

\* state: the mapping load_state was given or get_state returned
\* fault, err: the child operation made to raise and the error the call ended with
NoOp == [op |-> "__init__", state |-> EmptyDict, ret |-> RNone, had |-> 0,
         pristine |-> TRUE, name |-> "", value |-> 0, fault |-> "", err |-> "",
         form |-> EmptyDict]

\* the supervisor's fields hold what the configuration gave them
Pristine ==
    /\ child_class = conf.child_class
    /\ child_config_ref = 0
    /\ own_config = conf.child_config
    /\ profiles = conf.profiles
    /\ child_spawner = 0
    /\ child_state = EmptyDict
    /\ child_profile = ""

Fresh(c, uo) ==
    /\ conf' = c
    /\ user_options' = uo
    /\ traits' = [t \in SpawnerTraits |-> InitialTraitValue]
    /\ child_class' = c.child_class
    /\ child_config_ref' = 0
    /\ own_config' = c.child_config
    /\ child_state' = EmptyDict
    /\ child_spawner' = 0
    /\ child' = NoChild
    /\ child_profile' = ""
    /\ profiles' = c.profiles
    /\ trace' = <<>>
    /\ lastOp' = NoOp

Init ==
    /\ conf \in Configurations
    /\ user_options = EmptyDict
    /\ traits = [t \in SpawnerTraits |-> InitialTraitValue]
    /\ child_class = conf.child_class
    /\ child_config_ref = 0
    /\ own_config = conf.child_config
    /\ child_state = EmptyDict
    /\ child_spawner = 0
    /\ child = NoChild
    /\ child_profile = ""
    /\ profiles = conf.profiles
    /\ nextId = 1
    /\ saved = NoSaved
    /\ trace = <<>>
    /\ lastOp = NoOp

\* the fields of the object after a method ran on it
Assign(s) ==
    /\ child_class' = s.child_class
    /\ child_config_ref' = s.child_config_ref
    /\ own_config' = s.own_config
    /\ child_state' = s.child_state
    /\ child_spawner' = s.child_spawner
    /\ child' = s.child
    /\ child_profile' = s.child_profile
    /\ profiles' = s.profiles
    /\ nextId' = s.nextId
    /\ trace' = s.trace
    /\ UNCHANGED <<conf, user_options, traits>>

Op(name, state, ret) ==
    [op |-> name, state |-> state, ret |-> ret, had |-> child_spawner,
     pristine |-> Pristine, name |-> "", value |-> 0, fault |-> "", err |-> "",
     form |-> EmptyDict]

\* the same call when the child raises in operation fault
Raised(name, s) ==
    [Op(name, EmptyDict, IF s.err = "" THEN s.ret ELSE RNone)
       EXCEPT !.fault = s.fault, !.err = s.err]

FaultyChild(f) == [Self EXCEPT !.fault = f]

\* a construction needs an unused identity
CanConstruct == child_spawner # 0 \/ nextId <= MaxChildren

\* the child that exists was built from the catalog entry named by child_profile,
\* and child_class and child_config still are that entry's
BuiltFromChosenProfile ==
    /\ child_spawner # 0
    /\ \E i \in 1..Len(profiles) :
          /\ profiles[i].key = child_profile
          /\ child_class = profiles[i].class /\ child_config_ref = i
          /\ child.class = profiles[i].class /\ child.kwargs = profiles[i].config

\* the hub restarts: a new supervisor object is made from the configuration
\* and is handed the mapping the old one returned, if that was the last call
NewSupervisor ==
    /\ lastOp.op # "__init__"
    /\ Fresh(conf, EmptyDict)
    /\ saved' = IF lastOp.op = "get_state"
                THEN [has |-> TRUE, state |-> lastOp.state, class |-> child.class,
                      chosen |-> BuiltFromChosenProfile]
                ELSE NoSaved
    /\ UNCHANGED nextId

\* the orchestrator records the user's choice
SetUserOptions ==
    /\ \E uo \in UserOptions :
         /\ uo # user_options
         /\ user_options' = uo
    /\ trace' = <<>>
    /\ lastOp' = Op("set_user_options", EmptyDict, RNone)
    /\ UNCHANGED <<conf, traits, child_class, child_config_ref, own_config, child_state,
                   child_spawner, child, child_profile, profiles, nextId, saved>>

\* the persisted mapping is followed until the new supervisor is first used
Forget == saved' = NoSaved

\* assignment to a trait of the supervisor; observers run when the value changes
SetTrait ==
    /\ \E t \in SpawnerTraits, v \in TraitValues :
         /\ traits' = [traits EXCEPT ![t] = v]
         /\ child' = IF child_spawner # 0 /\ t \in child.links /\ v # traits[t]
                     THEN [child EXCEPT !.traits[t] = v] ELSE child
         /\ lastOp' = [Op("set_trait", EmptyDict, RNone) EXCEPT !.name = t, !.value = v]
    /\ trace' = <<>>
    /\ UNCHANGED <<conf, user_options, child_class, child_config_ref, own_config,
                   child_state, child_spawner, child_profile, profiles, nextId>>
    /\ Forget

\* assignment to a trait of the child
SetChildTrait ==
    /\ child_spawner # 0
    /\ \E t \in SpawnerTraits, v \in TraitValues :
         /\ child' = [child EXCEPT !.traits[t] = v]
         /\ lastOp' = [Op("set_child_trait", EmptyDict, RNone) EXCEPT !.name = t, !.value = v]
    /\ trace' = <<>>
    /\ UNCHANGED <<conf, user_options, traits, child_class, child_config_ref, own_config,
                   child_state, child_spawner, child_profile, profiles, nextId>>
    /\ Forget

SelectProfile ==
    /\ conf.cls = "ProfilesSpawner"
    /\ \E p \in ProfileKeys \cup {""} :
         /\ Assign(select_profile(Self, p))
         /\ lastOp' = [Op("select_profile", EmptyDict, RNone) EXCEPT !.name = p]
    /\ Forget

ConstructChild ==
    /\ CanConstruct
    /\ LET s == construct_child(Self)
       IN /\ Assign(s)
          /\ lastOp' = Op("construct_child", EmptyDict, s.ret)
    /\ Forget

\* the state mappings the orchestrator may hand to load_state
ChildStates == { EmptyDict } \cup { [k \in {"pid"} |-> n] : n \in 1..MaxPid }

LoadableStates ==
    { EmptyDict }
    \cup { [k \in {"profile", "child_conf", "child_state"} |->
              CASE k = "profile" -> p
                [] k = "child_conf" -> [j \in {"http_timeout"} |-> 15]
                [] OTHER -> cs] : p \in {"docker"}, cs \in ChildStates }
    \cup { st \in {saved.state} : saved.has }

LoadState ==
    /\ CanConstruct
    /\ \E state \in LoadableStates :
         LET s == load_state(Self, state)
         IN /\ Assign(s)
            /\ lastOp' = Op("load_state", state, s.ret)
            /\ saved' = IF saved.has /\ state = saved.state THEN saved ELSE NoSaved

GetState ==
    /\ LET s == get_state(Self)
       IN /\ Assign(s)
          /\ lastOp' = Op("get_state", s.ret, RNone)
    /\ Forget

ClearState ==
    /\ LET s == clear_state(Self)
       IN /\ Assign(s)
          /\ lastOp' = Op("clear_state", EmptyDict, s.ret)
    /\ Forget

Start ==
    /\ CanConstruct
    /\ \E pid \in 1..MaxPid :
         LET s == start(Self, pid)
         IN /\ Assign(s)
            /\ lastOp' = Op("start", EmptyDict, s.ret)
    /\ Forget

Stop ==
    /\ \E now \in BOOLEAN :
         LET s == stop(Self, now)
         IN /\ Assign(s)
            /\ lastOp' = [Op("stop", EmptyDict, s.ret) EXCEPT !.value = IF now THEN 1 ELSE 0]
    /\ Forget

Poll ==
    /\ LET s == poll(Self)
       IN /\ Assign(s)
          /\ lastOp' = Op("poll", EmptyDict, s.ret)
    /\ Forget

Progress ==
    /\ LET s == progress(Self)
       IN /\ Assign(s)
          /\ lastOp' = [Op("progress", EmptyDict, s.ret) EXCEPT !.err = s.err]
    /\ Forget

OptionsFromForm ==
    /\ conf.cls = "ProfilesSpawner"
    /\ \E formdata \in FormData :
         LET s == options_from_form(Self, formdata)
         IN /\ Assign(s)
            /\ lastOp' = [Op("options_from_form", IF s.err = "" THEN s.ret ELSE EmptyDict,
                             RNone) EXCEPT !.form = formdata, !.err = s.err]
    /\ Forget

\* the operations when an operation of the child raises
LoadStateRaises ==
    /\ CanConstruct
    /\ \E state \in LoadableStates, f \in {"__init__", "clear_state", "load_state"} :
         LET s == load_state(FaultyChild(f), state)
         IN Assign(s) /\ lastOp' = [Raised("load_state", s) EXCEPT !.state = state]
    /\ Forget

GetStateRaises ==
    /\ LET s == get_state(FaultyChild("get_state"))
       IN Assign(s) /\ lastOp' = [Raised("get_state", s) EXCEPT !.ret = RNone]
    /\ Forget

ClearStateRaises ==
    /\ LET s == clear_state(FaultyChild("clear_state"))
       IN Assign(s) /\ lastOp' = Raised("clear_state", s)
    /\ Forget

StartRaises ==
    /\ CanConstruct
    /\ \E pid \in 1..MaxPid,
          f \in {"__init__", "clear_state", "load_state", "run_pre_spawn_hook", "start"} :
         LET s == start(FaultyChild(f), pid)
         IN Assign(s) /\ lastOp' = Raised("start", s)
    /\ Forget

StopRaises ==
    /\ \E now \in BOOLEAN :
         LET s == stop(FaultyChild("stop"), now)
         IN Assign(s) /\ lastOp' = [Raised("stop", s) EXCEPT !.value = IF now THEN 1 ELSE 0]
    /\ Forget

PollRaises ==
    /\ LET s == poll(FaultyChild("poll"))
       IN Assign(s) /\ lastOp' = Raised("poll", s)
    /\ Forget

\* the lifecycle: every operation of the supervisor, its traits left as configured
Next ==
    \/ NewSupervisor
    \/ SetUserOptions
    \/ SelectProfile
    \/ ConstructChild
    \/ LoadState
    \/ GetState
    \/ ClearState
    \/ Start
    \/ Stop
    \/ Poll
    \/ Progress

Spec == Init /\ [][Next]_vars

\* trait assignment on the supervisor and on the child, between the operations
\* that construct and release a child
NextTraits ==
    \/ SetTrait
    \/ SetChildTrait
    \/ SetUserOptions
    \/ LoadState
    \/ ClearState
    \/ Start

SpecTraits == Init /\ [][NextTraits]_vars

\* the operations the hub calls, with the user's choice recorded in between
NextHub ==
    \/ SetUserOptions
    \/ LoadState
    \/ GetState
    \/ ClearState
    \/ Start
    \/ Stop
    \/ Poll

SpecHub == Init /\ [][NextHub]_vars

\* the lifecycle with children whose operations may raise
NextFaults ==
    \/ SetUserOptions
    \/ LoadState
    \/ GetState
    \/ ClearState
    \/ Start
    \/ Stop
    \/ Poll
    \/ LoadStateRaises
    \/ GetStateRaises
    \/ ClearStateRaises
    \/ StartRaises
    \/ StopRaises
    \/ PollRaises

SpecFaults == Init /\ [][NextFaults]_vars

\* a form is submitted, the choice is recorded and the server is started
NextForm ==
    \/ OptionsFromForm
    \/ SetUserOptions
    \/ Start
    \/ ClearState

SpecForm == Init /\ [][NextForm]_vars

\* ------------------------------------------------------------ properties
IsProfilesSpawner == conf.cls = "ProfilesSpawner"

\* the position of the catalog entry with this key, 0 when there is none
EntryOf(key) ==
    IF \E i \in 1..Len(profiles) : profiles[i].key = key
    THEN MinOf({i \in 1..Len(profiles) : profiles[i].key = key})
    ELSE 0

\* the profile user_options asks for, as construct_child reads it
Requested == Get(user_options, "profile", "")

\* this step is the operation op
Did(op) == lastOp'.op = op

\* C1: round trip. A fresh supervisor that is given the mapping get_state
\* returned on a supervisor whose child was built from a chosen catalog profile
\* ends with the same child_profile, the same child_config and a child of the
\* same class, whatever its user_options are.
C1_RoundTrip ==
    ( /\ IsProfilesSpawner
      /\ lastOp.op = "load_state" /\ lastOp.pristine
      /\ saved.has /\ saved.chosen /\ lastOp.state = saved.state )
    => /\ child_profile = saved.state["profile"]
       /\ ChildConfig(Self) = saved.state["child_conf"]
       /\ child.class = saved.class

\* C2 as claimed: start() on a fresh ProfilesSpawner whose user_options name no
\* catalog entry constructs the child with the class and config of profiles[0].
C2_DefaultIsFirstProfile ==
    ( /\ IsProfilesSpawner
      /\ lastOp.op = "start" /\ lastOp.pristine
      /\ EntryOf(Requested) = 0 )
    => /\ child.class = conf.profiles[1].class
       /\ child.kwargs = conf.profiles[1].config

\* C2 as amended: start() on a fresh ProfilesSpawner whose user_options name no
\* catalog entry constructs the child with the configured child_class and
\* child_config; the catalog is not consulted.
C2_DefaultIsConfigured ==
    ( /\ IsProfilesSpawner
      /\ lastOp.op = "start" /\ lastOp.pristine
      /\ EntryOf(Requested) = 0 )
    => /\ child.class = conf.child_class
       /\ child.kwargs = conf.child_config

C2_Witness ==
    /\ IsProfilesSpawner
    /\ lastOp.op = "start" /\ lastOp.pristine
    /\ Requested = "docker" /\ EntryOf(Requested) = 0
    /\ child_spawner # 0

\* C3: after select_profile(P.key) for an entry P of the catalog, child_class is
\* P's class and child_config is P's config dictionary.
C3_SelectSetsClassAndConfig ==
    (lastOp.op = "select_profile" /\ EntryOf(lastOp.name) # 0)
    => /\ child_class = profiles[EntryOf(lastOp.name)].class
       /\ child_config_ref = EntryOf(lastOp.name)
       /\ ChildConfig(Self) = profiles[EntryOf(lastOp.name)].config

C3_Witness ==
    /\ lastOp.op = "select_profile" /\ lastOp.name = "docker"
    /\ EntryOf("docker") # 0
    /\ conf.child_class # DockerSpawner
    /\ child_class = DockerSpawner

\* C4: select_profile with an identifier that matches no catalog entry changes
\* none of child_class, child_config, child_profile, child_state, child_spawner
\* (nor the child, nor the catalog) and returns normally.
C4_SelectMissIsNoOp ==
    [][ (Did("select_profile") /\ EntryOf(lastOp'.name) = 0)
        => /\ UNCHANGED <<child_class, child_config_ref, own_config, child_profile,
                          child_state, child_spawner, child, profiles, nextId>>
           /\ lastOp'.ret = RNone ]_vars

C4_Witness ==
    /\ lastOp.op = "select_profile" /\ EntryOf(lastOp.name) = 0
    /\ lastOp.name = "docker"
    /\ child_spawner # 0 /\ child_config_ref # 0

\* C5: construct_child called while a child exists returns that same child
\* instance, keeps it, and makes no call on it (no clear_state, no load_state,
\* no new link), for WrapSpawner and for ProfilesSpawner.
C5_ConstructChildIdempotent ==
    (lastOp.op = "construct_child" /\ lastOp.had # 0)
    => /\ lastOp.ret = RChild(lastOp.had)
       /\ child_spawner = lastOp.had
       /\ trace = <<>>

\* C6: without a child, poll() resolves to 1 and stop(now) to None, no child is
\* constructed, no call is made and no field of the supervisor changes.
C6_NoChildPollStop ==
    [][ ((Did("poll") \/ Did("stop")) /\ child_spawner = 0)
        => /\ lastOp'.ret = IF lastOp'.op = "poll" THEN RInt(1) ELSE RNone
           /\ trace' = <<>>
           /\ UNCHANGED <<user_options, traits, child_class, child_config_ref, own_config,
                          child_state, child_spawner, child, child_profile, profiles,
                          nextId>> ]_vars

C6_Witness ==
    /\ lastOp.op = "poll" /\ lastOp.had = 0 /\ lastOp.ret = RInt(1)
    /\ nextId > 1

\* the traits construct_child links for the child that exists
LinkedTraits == (SelfTraitNames \cap ChildTraitNames(child.class)) \ DOMAIN child.kwargs

\* C7: with a child, assigning a new value to a supervisor trait that the child
\* also has and that is no key of child_config gives the child's trait that
\* value; assigning to the child's trait leaves the supervisor's traits alone.
C7_LinkIsOneDirectional ==
    [][ /\ ( /\ Did("set_trait") /\ child_spawner # 0
             /\ lastOp'.name \in LinkedTraits
             /\ lastOp'.value # traits[lastOp'.name] )
           => child'.traits[lastOp'.name] = lastOp'.value
        /\ Did("set_child_trait") => traits' = traits ]_vars

C7_Witness ==
    /\ lastOp.op = "set_trait" /\ child_spawner # 0
    /\ lastOp.name = "http_timeout" /\ lastOp.name \in LinkedTraits
    /\ child.traits["http_timeout"] = lastOp.value
    /\ child.traits["http_timeout"] # InitialTraitValue
    /\ child.kwargs # EmptyDict

\* the operation constructed a child
Constructed ==
    /\ lastOp.op \in {"start", "load_state", "construct_child"}
    /\ lastOp.had = 0 /\ child_spawner # 0

\* C8: a child is constructed with k = child_config[k] for every key k of
\* child_config, no such k is linked, and a later assignment to the
\* supervisor's trait k leaves the child's traits as they were.
C8_OverridesWin ==
    [][ /\ Constructed'
           => /\ child'.kwargs = ChildConfig(Self)'
              /\ \A k \in DOMAIN child'.kwargs :
                    /\ k \notin child'.links
                    /\ k \in DOMAIN child'.traits => child'.traits[k] = child'.kwargs[k]
        /\ (Did("set_trait") /\ child_spawner # 0 /\ lastOp'.name \in DOMAIN child.kwargs)
           => child'.traits = child.traits ]_vars

C8_Witness ==
    /\ lastOp.op = "set_trait" /\ child_spawner # 0
    /\ lastOp.name = "start_timeout" /\ lastOp.name \in DOMAIN child.kwargs
    /\ traits["start_timeout"] # child.traits["start_timeout"]
    /\ "http_timeout" \in child.links

\* C9: load_state(state) on a supervisor without a child leaves a child; in a
\* ProfilesSpawner with a catalog entry whose key is state['profile'] the child
\* has that entry's class and was built with that entry's config overlaid by
\* state['child_conf']; the child was cleared first and then, only for a
\* non-empty state['child_state'], given exactly that mapping.
C9_LoadStateBuildsPersisted ==
    (lastOp.op = "load_state" /\ lastOp.had = 0)
    => /\ child_spawner # 0
       /\ (IsProfilesSpawner /\ EntryOf(Get(lastOp.state, "profile", "")) # 0)
          => LET e == profiles[EntryOf(lastOp.state["profile"])]
             IN /\ child.class = e.class
                /\ child.kwargs = Update(e.config, Get(lastOp.state, "child_conf", EmptyDict))
       /\ Len(trace) >= 2
       /\ trace[2] = Call("clear_state", child_spawner, EmptyDict)
       /\ LET cs == Get(lastOp.state, "child_state", EmptyDict)
              loads == {i \in 1..Len(trace) : trace[i].op = "load_state"}
          IN IF Truthy(cs)
             THEN loads = {3} /\ trace[3] = Call("load_state", child_spawner, cs)
             ELSE loads = {}

\* C10: after clear_state() there is no child, child_state and child_config are
\* empty and child_profile is the empty string; a child that existed was
\* cleared exactly once by the call, and no other call was made on it.
C10_ClearState ==
    lastOp.op = "clear_state"
    => /\ child_spawner = 0
       /\ child_state = EmptyDict
       /\ child_config_ref = 0 /\ ChildConfig(Self) = EmptyDict
       /\ child_profile = ""
       /\ trace = IF lastOp.had # 0
                  THEN <<Call("clear_state", lastOp.had, EmptyDict)>> ELSE <<>>

C10_Witness ==
    /\ lastOp.op = "clear_state" /\ lastOp.had # 0
    /\ IsProfilesSpawner
    /\ profiles # conf.profiles
    /\ trace # <<>>

\* the calls of the last operation that went to operation op of the child
Calls(op) == { i \in 1..Len(trace) : trace[i].op = op }

\* C11: every start() constructs a child exactly when none existed, forwards
\* only to the child it then has, calls the child's run_pre_spawn_hook before
\* the child's start, each at most once, and when nothing raised it has called
\* both and returns what the child's start returned.
C11_StartOrdering ==
    lastOp.op = "start"
    => /\ Calls("__init__") = IF lastOp.had = 0 THEN {1} ELSE {}
       /\ lastOp.had # 0 => child_spawner = lastOp.had
       /\ \A i \in Calls("run_pre_spawn_hook") \cup Calls("start") :
             child_spawner # 0 /\ trace[i].child = child_spawner
       /\ Calls("start") \subseteq {Len(trace)}
       /\ \A i \in Calls("start") : Calls("run_pre_spawn_hook") = {i - 1}
       /\ Cardinality(Calls("run_pre_spawn_hook")) <= 1
       /\ lastOp.err = ""
            => /\ Calls("start") = {Len(trace)}
               /\ lastOp.ret = RFuture("start", child_spawner)

\* a start that built its child, loaded the cached state into it and went through
C11_Witness ==
    /\ lastOp.op = "start" /\ lastOp.had = 0 /\ lastOp.err = ""
    /\ IsProfilesSpawner
    /\ Calls("load_state") # {}
    /\ Calls("start") # {}

\* C12: the mapping get_state returns has child_conf equal to child_config and,
\* on a ProfilesSpawner, profile equal to child_profile; it has child_state
\* exactly when a child exists, then with what the child's get_state returns,
\* which is also cached in child_state; with no child the cached child_state
\* stays as it was.
C12_GetState ==
    [][ Did("get_state")
        => /\ lastOp'.state["child_conf"] = ChildConfig(Self)'
           /\ ChildConfig(Self)' = ChildConfig(Self)
           /\ IsProfilesSpawner
                => /\ "profile" \in DOMAIN lastOp'.state
                   /\ lastOp'.state["profile"] = child_profile'
                   /\ child_profile' = child_profile
           /\ ~IsProfilesSpawner => "profile" \notin DOMAIN lastOp'.state
           /\ "child_state" \in DOMAIN lastOp'.state <=> child_spawner # 0
           /\ child_spawner # 0
                => /\ lastOp'.state["child_state"] = ChildGetState(child)
                   /\ child_state' = ChildGetState(child)
                   /\ trace' = <<Call("get_state", child_spawner, EmptyDict)>>
           /\ child_spawner = 0 => child_state' = child_state /\ trace' = <<>>
      ]_vars

\* get_state with a child whose state differs from the cached one
C12_Witness ==
    /\ lastOp.op = "get_state" /\ lastOp.had # 0
    /\ IsProfilesSpawner /\ child_profile # ""
    /\ "child_state" \in DOMAIN lastOp.state
    /\ lastOp.state["child_state"] # EmptyDict

\* C13: reading progress with no child raises RuntimeError and changes nothing
\* of the supervisor; with a child it returns the child's progress.
C13_Progress ==
    [][ Did("progress")
        => /\ child_spawner = 0
                => /\ lastOp'.err = "RuntimeError"
                   /\ trace' = <<>>
                   /\ UNCHANGED <<conf, user_options, traits, child_class,
                                  child_config_ref, own_config, child_state,
                                  child_spawner, child, child_profile, profiles>>
           /\ child_spawner # 0
                => /\ lastOp'.err = ""
                   /\ lastOp'.ret = RProgress(child_spawner)
                   /\ trace' = <<Call("progress", child_spawner, EmptyDict)>>
      ]_vars

\* progress was read after clear_state had released the child
C13_Witness ==
    /\ lastOp.op = "progress" /\ lastOp.err = "RuntimeError"
    /\ child_spawner = 0 /\ nextId > 1

\* the operations of the child that the supervisor's operations forward to
Forwarded == {"start", "stop", "poll", "get_state", "load_state", "clear_state"}

\* C14: when the child's start, stop, poll, get_state, load_state or clear_state
\* raises, the supervisor's operation ends with that error, right after that one
\* call and with no result of its own; and start, stop, poll, get_state and
\* clear_state on a supervisor with a child call the child's operation of the
\* same name exactly once unless an earlier call raised.
C14_Transparent ==
    /\ lastOp.fault \in Forwarded /\ Calls(lastOp.fault) # {}
         => /\ lastOp.err = lastOp.fault
            /\ Calls(lastOp.fault) = {Len(trace)}
            /\ lastOp.ret = RNone
    /\ ( /\ lastOp.op \in Forwarded \ {"load_state"}
         /\ lastOp.had # 0
         /\ lastOp.err \in {"", lastOp.op} )
       => Cardinality(Calls(lastOp.op)) = 1

\* the child's stop raised while its server was running
C14_Witness ==
    /\ lastOp.op = "stop" /\ lastOp.err = "stop"
    /\ child_spawner # 0 /\ child.pid # 0
    /\ Calls("stop") # {}

\* C15: for every form data, options_from_form returns {profile: k}, where k is
\* the first value submitted for 'profile' when the field is present and the key
\* of the first catalog entry when it is not; it fails for no form data.
C15_OptionsFromForm ==
    lastOp.op = "options_from_form"
    => /\ lastOp.err = ""
       /\ DOMAIN lastOp.state = {"profile"}
       /\ lastOp.state["profile"] =
            IF "profile" \in DOMAIN lastOp.form
            THEN Head(lastOp.form["profile"]) ELSE conf.profiles[1].key

\* C16: child_spawner goes from none to an instance only in start, load_state
\* or construct_child, and then to an instance that did not exist before; while
\* it is set, no operation but clear_state changes it, and clear_state sets it
\* to none, so that the next start builds a new instance.
C16_LazyOwnership ==
    [][ lastOp'.op # "__init__"
        => /\ child_spawner = 0 /\ child_spawner' # 0
                => /\ lastOp'.op \in {"start", "load_state", "construct_child"}
                   /\ child_spawner' = nextId /\ nextId' = nextId + 1
                   /\ trace'[1] = Call("__init__", child_spawner', child'.kwargs)
           /\ child_spawner # 0 /\ child_spawner' # child_spawner
                => Did("clear_state") /\ child_spawner' = 0
           /\ child_spawner # 0 /\ ~Did("clear_state")
                => /\ child_spawner' = child_spawner /\ child'.id = child.id
                   /\ Calls("__init__")' = {}
           /\ child_spawner' < nextId' /\ child'.id = child_spawner'
      ]_vars

\* a start after clear_state built the second instance
C16_Witness ==
    /\ lastOp.op = "start" /\ lastOp.had = 0
    /\ child_spawner = 2 /\ child.id = 2
    /\ Calls("__init__") = {1}

\* C17: whenever a child exists, child_class and child_config are the class and
\* the config it was built with.
C17_BuiltAsConfigured ==
    child_spawner # 0
    => /\ child_class = child.class
       /\ ChildConfig(Self) = child.kwargs

\* C18: the profile catalog, config dicts included, stays what the configuration
\* made it.
C18_CatalogConstant == profiles = conf.profiles

\* this class and these constructor arguments belong together: they are one
\* catalog entry's class and config, or the configured default class and
\* config, in both cases possibly with further keys laid over
PairBelongs(class, kwargs) ==
    \/ \E i \in 1..Len(conf.profiles) :
          /\ class = conf.profiles[i].class
          /\ DOMAIN conf.profiles[i].config \subseteq DOMAIN kwargs
    \/ /\ class = conf.child_class
       /\ DOMAIN conf.child_config \subseteq DOMAIN kwargs

\* C19: when a step of construct_child raises, the start or load_state that
\* called it ends with that error and child_spawner stays none; so every
\* child that child_spawner names went through all of construct_child, and
\* start forwards to no other.
C19_AllOrNothing ==
    /\ ( /\ lastOp.op \in {"start", "load_state"}
         /\ lastOp.had = 0
         /\ lastOp.fault \in {"__init__", "clear_state", "load_state"}
         /\ Calls(lastOp.fault) # {} )
       => lastOp.err = lastOp.fault /\ child_spawner = 0
    /\ child_spawner # 0 => child.stage = "linked"
    /\ lastOp.op = "start" /\ Calls("start") # {} => child.stage = "linked"

\* C20: on a ProfilesSpawner every child is constructed with a class and a
\* config that belong together.
C20_ClassMatchesConfig ==
    IsProfilesSpawner /\ Constructed => PairBelongs(child.class, child.kwargs)

====
